---- MODULE Spec2Model ----
(***************************************************************************)
(* The workflow engine of the project-management backend: the workflow     *)
(* registry, the workflow-instance stage machine and the business-rule     *)
(* evaluator, as the HTTP handlers of api/workflows.py drive the           *)
(* repositories of repositories/workflow_repository.py over SQLAlchemy     *)
(* sessions and the three tables of models/workflow.py.                    *)
(***************************************************************************)
EXTENDS Integers, Sequences, FiniteSets, TLC

VARIABLES
    workflows,   \* table workflows: id -> row
    projects,    \* ids of the rows of table projects
    instances,   \* table workflow_instances: id -> row
    rules,       \* table business_rules: id -> row
    seq,         \* the primary-key sequences of the three tables
    now,         \* the clock: func.now() / datetime.utcnow()
    sess,        \* the open SQLAlchemy sessions of concurrently served requests
    last         \* the request served last and its response

vars == <<workflows, projects, instances, rules, seq, now, sess, last>>

----------------------------------------------------------------------------
(* Bounds of the model. *)

MaxOps == 3          \* requests served in one run (each advances the clock)
MaxInstances == 2    \* rows ever inserted into workflow_instances
MaxRules == 2        \* rows ever inserted into business_rules
MaxWorkflows == 2    \* rows ever inserted into workflows

----------------------------------------------------------------------------
(* JSON values.  A scalar carries its Python type; a nullable JSON column  *)
(* holds None or a value.                                                  *)

JInt(n) == [t |-> "int", n |-> n]
JBool(n) == [t |-> "bool", n |-> n]
JStr(n) == [t |-> "str", n |-> n]
JFloat(n) == [t |-> "float", n |-> n]      \* the float n.0

\* Python's == on JSON scalars: numbers compare by value whatever their type
\* (bool is a subclass of int), so True == 1 == 1.0.
PyEq(x, y) == IF x.t = "str" \/ y.t = "str" THEN x = y ELSE x.n = y.n

EmptyDict == <<>>
None == [null |-> TRUE, v |-> <<>>]
Some(x) == [null |-> FALSE, v |-> x]

\* bool(x) of an Optional[dict] / Optional[list]: None and empty are falsy.
DictTruthy(j) == ~j.null /\ DOMAIN j.v # {}
ListTruthy(j) == ~j.null /\ Len(j.v) > 0
StrTruthy(j) == ~j.null /\ j.v # ""
Min(a, b) == IF a <= b THEN a ELSE b
\* xs[skip:skip + limit] for skip >= 0 and limit >= 0
PySlice(xs, skip, limit) == SubSeq(xs, skip + 1, Min(skip + limit, Len(xs)))
Range(xs) == {xs[i] : i \in 1..Len(xs)}

\* dict.update
DictUpdate(d, e) ==
    [k \in DOMAIN d \cup DOMAIN e |-> IF k \in DOMAIN e THEN e[k] ELSE d[k]]

\* Python's == on two dicts of scalars, on two transition records and on
\* two Optional JSON column values (the comparison of JSON.compare_values).
DictEq(d, e) == DOMAIN d = DOMAIN e /\ \A k \in DOMAIN d : PyEq(d[k], e[k])
RecordEq(r, q) ==
    /\ r.from_stage = q.from_stage
    /\ r.to_stage = q.to_stage
    /\ r.timestamp = q.timestamp
    /\ r.triggered_by = q.triggered_by
    /\ DictEq(r.data, q.data)
JsonDictEq(x, y) == x.null = y.null /\ DictEq(x.v, y.v)
JsonListEq(x, y) ==
    /\ x.null = y.null
    /\ Len(x.v) = Len(y.v)
    /\ \A i \in 1..Len(x.v) : RecordEq(x.v[i], y.v[i])

----------------------------------------------------------------------------
(* Strings and the request schemas of schemas/workflow.py.  A schema either *)
(* rejects the body (the request ends 422 before the handler runs) or      *)
(* yields the parsed value the handler receives.                           *)

MaxNameLen == 255
MaxStageLen == 100

RECURSIVE lstrip(_)
lstrip(s) ==
    IF Len(s) > 0 /\ SubSeq(s, 1, 1) = " " THEN lstrip(SubSeq(s, 2, Len(s))) ELSE s
RECURSIVE rstrip(_)
rstrip(s) ==
    IF Len(s) > 0 /\ SubSeq(s, Len(s), Len(s)) = " "
    THEN rstrip(SubSeq(s, 1, Len(s) - 1)) ELSE s
\* str.strip()
strip(s) == rstrip(lstrip(s))

Rejected == [ok |-> FALSE, v |-> ""]
Parsed(v) == [ok |-> TRUE, v |-> v]

\* WorkflowBase.name (Field min_length, max_length), WorkflowCreate.validate_name
WorkflowCreate_validate_name(v) ==
    IF Len(v) < 1 \/ Len(v) > MaxNameLen THEN Rejected
    ELSE IF v = "" \/ strip(v) = "" THEN Rejected
    ELSE Parsed(strip(v))

\* WorkflowCreate.validate_stages
WorkflowCreate_validate_stages(v) == DOMAIN v # {}

\* WorkflowUpdate.validate_name, on a name the patch supplies
WorkflowUpdate_validate_name(v) ==
    IF strip(v) = "" THEN Rejected
    ELSE IF Len(v) > MaxNameLen THEN Rejected
    ELSE Parsed(strip(v))

\* WorkflowInstanceBase.current_stage (Field min_length, max_length),
\* WorkflowInstanceCreate.validate_current_stage
WorkflowInstanceCreate_validate_current_stage(v) ==
    IF Len(v) < 1 \/ Len(v) > MaxStageLen THEN Rejected
    ELSE IF v = "" \/ strip(v) = "" THEN Rejected
    ELSE Parsed(strip(v))

\* WorkflowInstanceUpdate.validate_current_stage, on a stage the patch supplies
WorkflowInstanceUpdate_validate_current_stage(v) ==
    IF strip(v) = "" THEN Rejected ELSE Parsed(strip(v))

\* BusinessRuleBase.name (Field min_length, max_length),
\* BusinessRuleCreate.validate_name
BusinessRuleCreate_validate_name(v) ==
    IF Len(v) < 1 \/ Len(v) > MaxNameLen THEN Rejected
    ELSE IF v = "" \/ strip(v) = "" THEN Rejected
    ELSE Parsed(strip(v))

\* BusinessRuleUpdate.validate_name, on a name the patch supplies
BusinessRuleUpdate_validate_name(v) ==
    IF strip(v) = "" THEN Rejected
    ELSE IF Len(v) > MaxNameLen THEN Rejected
    ELSE Parsed(strip(v))

----------------------------------------------------------------------------
(* Enumerations and the inputs the requests draw from. *)

WorkflowType == {"sales", "support", "development", "marketing", "operations"}
WorkflowStage ==
    {"lead", "qualification", "proposal", "negotiation", "closed_won",
     "closed_lost", "development", "testing", "deployment", "maintenance"}
RuleType == {"validation", "automation", "notification"}

Keys == {"a", "b"}
Users == {1}
Stages == {"lead", "closed_won", "custom", ""}  \* "custom" is in no enumeration
WorkflowIds == 1..MaxWorkflows
ProjectIds == {1, 2}
InstanceIds == 1..MaxInstances

\* A history entry as a client may supply it at creation or in a patch.
SuppliedEntry ==
    [from_stage |-> "custom", to_stage |-> "lead", timestamp |-> 0,
     triggered_by |-> 1, data |-> EmptyDict]

CreateStageData == {None, Some("b" :> JInt(2))}
CreateHistory == {None, Some(<<SuppliedEntry>>)}
TransitionData ==
    {None, Some(EmptyDict), Some("a" :> JInt(1)), Some("a" :> JInt(3)),
     Some("b" :> JInt(1))}
FromStages == {"lead"}            \* from_stage of a transition request
BodyTriggeredBy == {None}         \* triggered_by of a transition request
InstancePatches ==
    { EmptyDict,
      "is_completed" :> TRUE,
      "current_stage" :> "custom",
      "current_stage" :> " ",
      "history" :> Some(<<>>),
      "stage_data" :> Some("a" :> JBool(1)) }

----------------------------------------------------------------------------
(* The unit of work of a SQLAlchemy session on one loaded row.  obj holds  *)
(* the attribute values of the loaded object; committed holds, for every   *)
(* attribute, the value the flush compares the current one against: the    *)
(* object that was the attribute's value when it was assigned.  The JSON   *)
(* columns are plain JSON (no mutation tracking), so a list or dict that   *)
(* is changed in place and assigned back is its own committed value.       *)

\* workflow_repository.py 278-284
transition_record(instance, new_stage, transition_data, triggered_by) ==
    [from_stage |-> instance.current_stage,
     to_stage |-> new_stage,
     timestamp |-> now,
     triggered_by |-> triggered_by,
     data |-> transition_data.v]

\* assign_history with the list rebuilt from the new record alone.
assign_history_replacing(loaded, record) ==
    [value |-> Some(<<record>>), committed |-> loaded]

\* workflow_repository.py 287-289: history = instance.history or [];
\* history.append(record); instance.history = history
assign_history(loaded, record) ==
    LET appended == Some(Append(loaded.v, record))
    IN  IF ListTruthy(loaded)
        THEN [value |-> appended, committed |-> appended]  \* the loaded list, appended to
        ELSE [value |-> appended, committed |-> loaded]    \* a new list

\* workflow_repository.py 292-295
assign_stage_data(loaded, transition_data) ==
    LET merged == Some(DictUpdate(loaded.v, transition_data.v))
    IN  IF ~DictTruthy(transition_data)
        THEN [value |-> loaded, committed |-> loaded]
        ELSE IF DictTruthy(loaded)
        THEN [value |-> merged, committed |-> merged]      \* the loaded dict, updated
        ELSE [value |-> merged, committed |-> loaded]      \* a new dict

\* Session.commit on one dirty object: the UPDATE sets the columns whose
\* current value differs from the committed one, and updated_at with them.
flush(row, obj, committed) ==
    LET stage == obj.current_stage # committed.current_stage
        data == ~JsonDictEq(obj.stage_data, committed.stage_data)
        hist == ~JsonListEq(obj.history, committed.history)
        done == obj.is_completed # committed.is_completed
    IN  IF ~(stage \/ data \/ hist \/ done) THEN row
        ELSE [row EXCEPT
                !.current_stage = IF stage THEN obj.current_stage ELSE @,
                !.stage_data = IF data THEN obj.stage_data ELSE @,
                !.history = IF hist THEN obj.history ELSE @,
                !.is_completed = IF done THEN obj.is_completed ELSE @,
                !.updated_at = now]

\* transition_stage that marks the instance completed on a closing stage.
transition_stage_completing(instance, new_stage, transition_data, triggered_by) ==
    LET record == transition_record(instance, new_stage, transition_data, triggered_by)
        h == assign_history(instance.history, record)
        d == assign_stage_data(instance.stage_data, transition_data)
    IN  [obj |-> [instance EXCEPT !.history = h.value, !.stage_data = d.value,
                                  !.current_stage = new_stage,
                                  !.is_completed =
                                      @ \/ new_stage \in {"closed_won", "closed_lost"}],
         committed |-> [instance EXCEPT !.history = h.committed,
                                        !.stage_data = d.committed]]

\* workflow_repository.py 277-297: the session's object after the handler ran on it
transition_stage(instance, new_stage, transition_data, triggered_by) ==
    LET record == transition_record(instance, new_stage, transition_data, triggered_by)
        h == assign_history(instance.history, record)
        d == assign_stage_data(instance.stage_data, transition_data)
    IN  [obj |-> [instance EXCEPT !.history = h.value, !.stage_data = d.value,
                                  !.current_stage = new_stage],
         committed |-> [instance EXCEPT !.history = h.committed,
                                        !.stage_data = d.committed]]

\* update_workflow_instance that records a change of stage in the history.
update_workflow_instance_recording(instance, patch) ==
    LET F == DOMAIN patch
        record == [from_stage |-> instance.current_stage,
                   to_stage |-> patch["current_stage"], timestamp |-> now,
                   triggered_by |-> None, data |-> EmptyDict]
    IN  [obj |-> [instance EXCEPT
                    !.current_stage = IF "current_stage" \in F THEN patch["current_stage"] ELSE @,
                    !.stage_data = IF "stage_data" \in F THEN patch["stage_data"] ELSE @,
                    !.history = IF "history" \in F THEN patch["history"]
                                ELSE IF "current_stage" \in F
                                THEN Some(Append(instance.history.v, record))
                                ELSE @,
                    !.is_completed = IF "is_completed" \in F THEN patch["is_completed"] ELSE @],
         committed |-> instance]

\* workflow_repository.py 249-252: setattr of every field the patch supplies
update_workflow_instance(instance, patch) ==
    LET F == DOMAIN patch
    IN  [obj |-> [instance EXCEPT
                    !.current_stage = IF "current_stage" \in F THEN patch["current_stage"] ELSE @,
                    !.stage_data = IF "stage_data" \in F THEN patch["stage_data"] ELSE @,
                    !.history = IF "history" \in F THEN patch["history"] ELSE @,
                    !.is_completed = IF "is_completed" \in F THEN patch["is_completed"] ELSE @],
         committed |-> instance]

\* create_workflow_instance that stores an empty list for a history not supplied.
create_workflow_instance_empty_history(instance_data) ==
    [workflow_id |-> instance_data.workflow_id,
     project_id |-> instance_data.project_id,
     current_stage |-> instance_data.current_stage,
     stage_data |-> instance_data.stage_data,
     history |-> IF instance_data.history.null THEN Some(<<>>)
                 ELSE instance_data.history,
     is_completed |-> instance_data.is_completed,
     created_at |-> now,
     updated_at |-> now]

\* workflow_repository.py 229-233: the inserted row
create_workflow_instance(instance_data) ==
    [workflow_id |-> instance_data.workflow_id,
     project_id |-> instance_data.project_id,
     current_stage |-> instance_data.current_stage,
     stage_data |-> instance_data.stage_data,
     history |-> instance_data.history,
     is_completed |-> instance_data.is_completed,
     created_at |-> now,
     updated_at |-> now]

----------------------------------------------------------------------------
(* The instance endpoints of api/workflows.py, one request served at a     *)
(* time.                                                                   *)

Response(op, status, detail, id, req, user, body) ==
    [op |-> op, status |-> status, detail |-> detail, id |-> id, req |-> req,
     user |-> user, body |-> body]

\* WorkflowInstanceResponse.from_orm(instance): the response schema inherits
\* the Field constraints of WorkflowInstanceBase.current_stage, so a stored
\* stage it does not accept makes from_orm raise inside the handler.
WorkflowInstanceResponse_from_orm(instance) ==
    /\ Len(instance.current_stage) >= 1
    /\ Len(instance.current_stage) <= MaxStageLen

\* The answer of an endpoint that returns an instance: the instance, or 500
\* from the global exception handler when from_orm raised.
InstanceResponse(op, status, id, req, user, instance) ==
    IF WorkflowInstanceResponse_from_orm(instance)
    THEN Response(op, status, "", id, req, user, instance)
    ELSE Response(op, 500, "Internal server error", id, req, user, <<>>)

\* instance_data: WorkflowInstanceCreate, the body as the schema parses it
WorkflowInstanceCreate(body) ==
    [body EXCEPT !.current_stage =
        WorkflowInstanceCreate_validate_current_stage(body.current_stage).v]

\* create_workflow_instance_endpoint without the project lookup.
create_workflow_instance_unchecked(body, user) ==
    /\ now < MaxOps
    /\ now' = now + 1
    /\ LET instance_data == WorkflowInstanceCreate(body) IN
       IF ~WorkflowInstanceCreate_validate_current_stage(body.current_stage).ok
       THEN /\ last' = Response("create_instance", 422, "Unprocessable Entity", 0,
                                body, user, <<>>)
            /\ UNCHANGED <<instances, seq>>
       ELSE IF instance_data.workflow_id \notin DOMAIN workflows
       THEN /\ last' = Response("create_instance", 404, "Workflow not found", 0,
                                body, user, <<>>)
            /\ UNCHANGED <<instances, seq>>
       ELSE /\ seq.instances < MaxInstances
            /\ seq' = [seq EXCEPT !.instances = @ + 1]
            /\ instances' = (seq'.instances :> create_workflow_instance(instance_data))
                               @@ instances
            /\ last' = InstanceResponse("create_instance", 201, seq'.instances,
                                        body, user, instances'[seq'.instances])
    /\ UNCHANGED <<workflows, projects, rules, sess>>

\* POST /instances/ (api/workflows.py 248-281)
create_workflow_instance_endpoint(body, user) ==
    /\ now < MaxOps
    /\ now' = now + 1
    /\ LET instance_data == WorkflowInstanceCreate(body) IN
       IF ~WorkflowInstanceCreate_validate_current_stage(body.current_stage).ok
       THEN /\ last' = Response("create_instance", 422, "Unprocessable Entity", 0,
                                body, user, <<>>)
            /\ UNCHANGED <<instances, seq>>
       ELSE IF instance_data.workflow_id \notin DOMAIN workflows
       THEN /\ last' = Response("create_instance", 404, "Workflow not found", 0,
                                body, user, <<>>)
            /\ UNCHANGED <<instances, seq>>
       ELSE IF instance_data.project_id \notin projects
       THEN /\ last' = Response("create_instance", 404, "Project not found", 0,
                                body, user, <<>>)
            /\ UNCHANGED <<instances, seq>>
       ELSE /\ seq.instances < MaxInstances
            /\ seq' = [seq EXCEPT !.instances = @ + 1]
            /\ instances' = (seq'.instances :> create_workflow_instance(instance_data))
                               @@ instances
            /\ last' = InstanceResponse("create_instance", 201, seq'.instances,
                                        body, user, instances'[seq'.instances])
    /\ UNCHANGED <<workflows, projects, rules, sess>>

\* instance_update: WorkflowInstanceUpdate, the patch as the schema parses it
WorkflowInstanceUpdate(patch) ==
    IF "current_stage" \notin DOMAIN patch THEN Parsed(patch)
    ELSE LET stage == WorkflowInstanceUpdate_validate_current_stage(patch["current_stage"])
         IN  IF ~stage.ok THEN [ok |-> FALSE, v |-> patch]
             ELSE Parsed([patch EXCEPT !["current_stage"] = stage.v])

\* GET /instances/{instance_id} (api/workflows.py 284-307)
get_workflow_instance(instance_id, user) ==
    /\ now < MaxOps
    /\ now' = now + 1
    /\ IF instance_id \notin DOMAIN instances
       THEN last' = Response("get_instance", 404, "Workflow instance not found",
                             instance_id, <<>>, user, <<>>)
       ELSE last' = InstanceResponse("get_instance", 200, instance_id, <<>>, user,
                                     instances[instance_id])
    /\ UNCHANGED <<workflows, projects, instances, rules, seq, sess>>

\* PUT /instances/{instance_id} (api/workflows.py 310-336)
update_workflow_instance_endpoint(instance_id, patch, user) ==
    /\ now < MaxOps
    /\ now' = now + 1
    /\ IF ~WorkflowInstanceUpdate(patch).ok
       THEN /\ last' = Response("update_instance", 422, "Unprocessable Entity",
                                instance_id, patch, user, <<>>)
            /\ UNCHANGED instances
       ELSE IF instance_id \notin DOMAIN instances
       THEN /\ last' = Response("update_instance", 404, "Workflow instance not found",
                                instance_id, patch, user, <<>>)
            /\ UNCHANGED instances
       ELSE LET u == update_workflow_instance(instances[instance_id],
                                              WorkflowInstanceUpdate(patch).v)
            IN  /\ instances' = [instances EXCEPT
                                   ![instance_id] = flush(@, u.obj, u.committed)]
                /\ last' = InstanceResponse("update_instance", 200, instance_id,
                                            patch, user, instances'[instance_id])
    /\ UNCHANGED <<workflows, projects, rules, seq, sess>>

\* transition_workflow_stage that records the triggered_by of the request body
\* when the body supplies one.
transition_workflow_stage_trusting_body(instance_id, body, user) ==
    /\ now < MaxOps
    /\ now' = now + 1
    /\ IF instance_id \notin DOMAIN instances
       THEN /\ last' = Response("transition", 404, "Workflow instance not found",
                                instance_id, body, user, <<>>)
            /\ UNCHANGED instances
       ELSE LET t == transition_stage(instances[instance_id], body.to_stage,
                                      body.transition_data,
                                      IF body.triggered_by.null THEN user
                                      ELSE body.triggered_by.v)
            IN  /\ instances' = [instances EXCEPT
                                   ![instance_id] = flush(@, t.obj, t.committed)]
                /\ last' = InstanceResponse("transition", 200, instance_id, body,
                                            user, instances'[instance_id])
    /\ UNCHANGED <<workflows, projects, rules, seq, sess>>

\* POST /instances/{instance_id}/transition (api/workflows.py 339-373)
transition_workflow_stage(instance_id, body, user) ==
    /\ now < MaxOps
    /\ now' = now + 1
    /\ IF instance_id \notin DOMAIN instances
       THEN /\ last' = Response("transition", 404, "Workflow instance not found",
                                instance_id, body, user, <<>>)
            /\ UNCHANGED instances
       ELSE LET t == transition_stage(instances[instance_id], body.to_stage,
                                      body.transition_data, user)
            IN  /\ instances' = [instances EXCEPT
                                   ![instance_id] = flush(@, t.obj, t.committed)]
                /\ last' = InstanceResponse("transition", 200, instance_id, body,
                                            user, instances'[instance_id])
    /\ UNCHANGED <<workflows, projects, rules, seq, sess>>

InstanceCreateInputs ==
    [workflow_id : WorkflowIds, project_id : ProjectIds,
     current_stage : {"lead", " lead ", " "}, stage_data : CreateStageData,
     history : CreateHistory, is_completed : {FALSE}]
TransitionInputs ==
    [from_stage : FromStages, to_stage : Stages, transition_data : TransitionData,
     triggered_by : BodyTriggeredBy]

\* The workflow and the project the instance requests refer to.
SalesPipeline ==
    [name |-> "Sales Pipeline", description |-> None, type |-> "sales",
     stages |-> ("lead" :> EmptyDict @@ "closed_won" :> EmptyDict),
     rules |-> None, is_active |-> TRUE, created_at |-> 0, updated_at |-> 0]

NoSessions == <<>>
NoRequest == Response("none", 0, "", 0, EmptyDict, 0, <<>>)

InitInstance ==
    /\ workflows = (1 :> SalesPipeline)
    /\ projects = {1}
    /\ instances = <<>>
    /\ rules = <<>>
    /\ seq = [workflows |-> 1, instances |-> 0, rules |-> 0]
    /\ now = 0
    /\ sess = NoSessions
    /\ last = NoRequest

NextInstance ==
    \/ \E d \in InstanceCreateInputs, u \in Users :
          create_workflow_instance_endpoint(d, u)
    \/ \E i \in InstanceIds, p \in InstancePatches, u \in Users :
          update_workflow_instance_endpoint(i, p, u)
    \/ \E i \in InstanceIds, b \in TransitionInputs, u \in Users :
          transition_workflow_stage(i, b, u)
    \/ \E i \in InstanceIds, u \in Users : get_workflow_instance(i, u)

SpecInstance == InitInstance /\ [][NextInstance]_vars


----------------------------------------------------------------------------
(* Two transition requests served at once, each by its own worker with its *)
(* own session on the shared database.  A request loads the row (SELECT),  *)
(* changes the loaded object in memory and commits (UPDATE of the changed  *)
(* columns WHERE id = ...); the other request may run between the two.     *)

Sessions == {1, 2}
Idle == [pc |-> "idle"]

\* api/workflows.py 358-363, workflow_repository.py 273-275: the request
\* loads the instance into its session, or ends 404
transition_load(s, instance_id, body, user) ==
    /\ sess[s].pc = "idle"
    /\ IF instance_id \notin DOMAIN instances
       THEN sess' = [sess EXCEPT ![s] =
                [pc |-> "done", id |-> instance_id, body |-> body, user |-> user,
                 status |-> 404, loaded_at |-> now, committed_at |-> now]]
       ELSE sess' = [sess EXCEPT ![s] =
                [pc |-> "loaded", id |-> instance_id, body |-> body, user |-> user,
                 instance |-> instances[instance_id], loaded_at |-> now]]
    /\ UNCHANGED <<workflows, projects, instances, rules, seq, now, last>>

\* workflow_repository.py 277-301: the loaded object is changed, the session
\* commits onto the row as it is now, and the row is read back
transition_commit(s) ==
    /\ sess[s].pc = "loaded"
    /\ now < MaxOps
    /\ now' = now + 1
    /\ LET r == sess[s]
           t == transition_stage(r.instance, r.body.to_stage,
                                 r.body.transition_data, r.user)
       IN  IF r.id \notin DOMAIN instances
           THEN \* 273-275: ValueError, which no handler of the endpoint catches
                /\ instances' = instances
                /\ sess' = [sess EXCEPT ![s] =
                        [pc |-> "done", id |-> r.id, body |-> r.body, user |-> r.user,
                         status |-> 500, loaded_at |-> r.loaded_at,
                         committed_at |-> now']]
                /\ last' = Response("transition", 500, "Internal server error", r.id,
                                    r.body, r.user, <<>>)
           ELSE
           /\ instances' = [instances EXCEPT ![r.id] = flush(@, t.obj, t.committed)]
           /\ sess' = [sess EXCEPT ![s] =
                        [pc |-> "done", id |-> r.id, body |-> r.body, user |-> r.user,
                         status |-> IF WorkflowInstanceResponse_from_orm(instances'[r.id])
                                    THEN 200 ELSE 500,
                         instance |-> r.instance,
                         record |-> transition_record(r.instance, r.body.to_stage,
                                                      r.body.transition_data, r.user),
                         loaded_at |-> r.loaded_at, committed_at |-> now']]
           /\ last' = InstanceResponse("transition", 200, r.id, r.body, r.user,
                                       instances'[r.id])
    /\ UNCHANGED <<workflows, projects, rules, seq>>

\* BaseRepository.delete (base.py 120-135) on the instance repository: the row
\* is deleted by another user of the database; no endpoint of the API does it.
delete_instance(instance_id) ==
    /\ now < MaxOps
    /\ now' = now + 1
    /\ instance_id \in DOMAIN instances
    /\ instances' = [i \in DOMAIN instances \ {instance_id} |-> instances[i]]
    /\ UNCHANGED <<workflows, projects, rules, seq, sess, last>>

\* An instance as a create request left it, before the two requests arrive.
InitRace ==
    /\ workflows = (1 :> SalesPipeline)
    /\ projects = {1}
    /\ now = 0
    /\ \E d \in InstanceCreateInputs :
          /\ WorkflowInstanceCreate_validate_current_stage(d.current_stage).ok
          /\ d.workflow_id \in DOMAIN workflows
          /\ d.project_id \in projects
          /\ instances = (1 :> create_workflow_instance(WorkflowInstanceCreate(d)))
    /\ rules = <<>>
    /\ seq = [workflows |-> 1, instances |-> 1, rules |-> 0]
    /\ sess = [s \in Sessions |-> Idle]
    /\ last = NoRequest

NextRace ==
    \/ \E s \in Sessions, i \in InstanceIds, b \in TransitionInputs, u \in Users :
          transition_load(s, i, b, u)
    \/ \E s \in Sessions : transition_commit(s)
    \/ \E i \in InstanceIds : delete_instance(i)

SpecRace == InitRace /\ [][NextRace]_vars

----------------------------------------------------------------------------
(* The business rules: BusinessRuleRepository and the rule endpoints.      *)

Dicts(K, V) == UNION {[D -> V] : D \in SUBSET K}
RuleConditions == Dicts(Keys, {JInt(1), JInt(2)}) \cup {"c" :> JInt(1)}
Contexts ==
    Dicts(Keys, {JInt(1), JBool(1)})
        \cup {"a" :> JInt(1) @@ "b" :> JInt(2), "a" :> JFloat(1)}
RuleActions == {"notify" :> JStr(1)}
RuleCreateInputs ==
    [name : {"rule"}, rule_type : {"validation", "notification"},
     conditions : RuleConditions, actions : RuleActions, is_active : BOOLEAN]
RulePatches ==
    { "is_active" :> FALSE,
      "is_active" :> TRUE,
      "conditions" :> EmptyDict,
      "conditions" :> ("a" :> JInt(1)) }
RuleIds == 1..MaxRules

\* The rows of a table, most recently created first: order_by(desc(created_at)).
RECURSIVE OrderByCreatedDesc(_, _)
OrderByCreatedDesc(table, ids) ==
    IF ids = {} THEN <<>>
    ELSE LET first == CHOOSE i \in ids :
                        \A j \in ids : table[i].created_at >= table[j].created_at
         IN  <<first>> \o OrderByCreatedDesc(table, ids \ {first})

\* get_active_rules with the is_active filter left out.
get_all_rules_unfiltered ==
    OrderByCreatedDesc(rules, DOMAIN rules)

\* workflow_repository.py 363-375: the ids of the active rules, in listing order
get_active_rules ==
    OrderByCreatedDesc(rules, {i \in DOMAIN rules : rules[i].is_active = TRUE})

\* The for loop of _evaluate_conditions over the keys still to visit.
RECURSIVE conditions_loop(_, _, _)
conditions_loop(keys, conditions, context) ==
    IF keys = {} THEN TRUE
    ELSE LET key == CHOOSE k \in keys : TRUE
         IN  IF key \notin DOMAIN context THEN FALSE
             ELSE IF ~PyEq(context[key], conditions[key]) THEN FALSE
             ELSE conditions_loop(keys \ {key}, conditions, context)

\* _evaluate_conditions that lets a key missing from the context pass.
evaluate_conditions_skip_missing(conditions, context) ==
    \A key \in DOMAIN conditions \cap DOMAIN context :
        PyEq(context[key], conditions[key])

\* _evaluate_conditions that refuses a rule without conditions.
evaluate_conditions_nonempty(conditions, context) ==
    /\ DOMAIN conditions # {}
    /\ conditions_loop(DOMAIN conditions, conditions, context)

\* _evaluate_conditions that refuses a context with a key the rule does not name.
evaluate_conditions_exact_keys(conditions, context) ==
    /\ DOMAIN context \subseteq DOMAIN conditions
    /\ conditions_loop(DOMAIN conditions, conditions, context)

\* workflow_repository.py 438-455
evaluate_conditions(conditions, context) ==
    conditions_loop(DOMAIN conditions, conditions, context)

\* workflow_repository.py 427-434: the entries collected over a rule listing
RECURSIVE triggered_rules(_, _)
triggered_rules(listing, context) ==
    IF listing = <<>> THEN <<>>
    ELSE LET rule_id == Head(listing)
             rule == rules[rule_id]
         IN  (IF evaluate_conditions(rule.conditions, context)
              THEN <<[rule_id |-> rule_id, rule_name |-> rule.name,
                      rule_type |-> rule.rule_type, actions |-> rule.actions]>>
              ELSE <<>>) \o triggered_rules(Tail(listing), context)

\* evaluate_rules that stops at the first rule that matches.
evaluate_rules_first_match(context) ==
    LET triggered == triggered_rules(get_active_rules, context)
    IN  IF triggered = <<>> THEN <<>> ELSE <<Head(triggered)>>

\* workflow_repository.py 414-436
evaluate_rules(context) == triggered_rules(get_active_rules, context)

\* workflow_repository.py 346-361: BusinessRuleRepository.get_by_type
rule_get_by_type(rule_type) ==
    OrderByCreatedDesc(rules,
        {i \in DOMAIN rules :
            rules[i].rule_type = rule_type /\ rules[i].is_active = TRUE})

\* rule_data: BusinessRuleCreate, the body as the schema parses it
BusinessRuleCreate(body) ==
    LET name == BusinessRuleCreate_validate_name(body.name)
    IN  IF ~name.ok \/ body.rule_type \notin RuleType
        THEN [ok |-> FALSE, v |-> body]
        ELSE Parsed([body EXCEPT !.name = name.v])

\* rule_update: BusinessRuleUpdate, the patch as the schema parses it
BusinessRuleUpdate(patch) ==
    IF "rule_type" \in DOMAIN patch /\ patch["rule_type"] \notin RuleType
    THEN [ok |-> FALSE, v |-> patch]
    ELSE IF "name" \notin DOMAIN patch THEN Parsed(patch)
    ELSE LET name == BusinessRuleUpdate_validate_name(patch["name"])
         IN  IF ~name.ok THEN [ok |-> FALSE, v |-> patch]
             ELSE Parsed([patch EXCEPT !["name"] = name.v])

\* workflow_repository.py 387-391: the inserted row
create_business_rule(rule_data) ==
    [name |-> rule_data.name, rule_type |-> rule_data.rule_type,
     conditions |-> rule_data.conditions, actions |-> rule_data.actions,
     is_active |-> rule_data.is_active, created_at |-> now, updated_at |-> now]

\* workflow_repository.py 405-411: setattr of the supplied fields, then the
\* UPDATE of the columns whose value differs from the loaded one
update_business_rule(rule, patch) ==
    LET dirty == {f \in DOMAIN patch :
                    IF f = "conditions" THEN ~DictEq(patch[f], rule[f])
                    ELSE patch[f] # rule[f]}
    IN  IF dirty = {} THEN rule
        ELSE [f \in DOMAIN rule |->
                IF f \in dirty THEN patch[f]
                ELSE IF f = "updated_at" THEN now
                ELSE rule[f]]

\* GET /rules/ (api/workflows.py 377-414)
get_business_rules(skip, limit, rule_type, user) ==
    /\ now < MaxOps
    /\ now' = now + 1
    /\ LET req == [skip |-> skip, limit |-> limit, rule_type |-> rule_type]
           listing == IF StrTruthy(rule_type) THEN rule_get_by_type(rule_type.v)
                      ELSE get_active_rules
           total == Len(listing)
       IN  last' = Response("list_rules", 200, "", 0, req, user,
                            [items |-> PySlice(listing, skip, limit),
                             total |-> total,
                             page |-> (skip \div limit) + 1,
                             size |-> limit,
                             pages |-> (total + limit - 1) \div limit])
    /\ UNCHANGED <<workflows, projects, instances, rules, seq, sess>>

\* GET /rules/{rule_id} (api/workflows.py 439-462)
get_business_rule(rule_id, user) ==
    /\ now < MaxOps
    /\ now' = now + 1
    /\ IF rule_id \notin DOMAIN rules
       THEN last' = Response("get_rule", 404, "Business rule not found",
                             rule_id, <<>>, user, <<>>)
       ELSE last' = Response("get_rule", 200, "", rule_id, <<>>, user,
                             rules[rule_id])
    /\ UNCHANGED <<workflows, projects, instances, rules, seq, sess>>

\* POST /rules/ (api/workflows.py 417-436)
create_business_rule_endpoint(rule_data, user) ==
    /\ now < MaxOps
    /\ now' = now + 1
    /\ IF ~BusinessRuleCreate(rule_data).ok
       THEN /\ last' = Response("create_rule", 422, "Unprocessable Entity", 0,
                                rule_data, user, <<>>)
            /\ UNCHANGED <<rules, seq>>
       ELSE /\ seq.rules < MaxRules
            /\ seq' = [seq EXCEPT !.rules = @ + 1]
            /\ rules' = (seq'.rules :>
                            create_business_rule(BusinessRuleCreate(rule_data).v))
                         @@ rules
            /\ last' = Response("create_rule", 201, "", seq'.rules, rule_data, user,
                                rules'[seq'.rules])
    /\ UNCHANGED <<workflows, projects, instances, sess>>

\* PUT /rules/{rule_id} (api/workflows.py 465-491)
update_business_rule_endpoint(rule_id, patch, user) ==
    /\ now < MaxOps
    /\ now' = now + 1
    /\ IF ~BusinessRuleUpdate(patch).ok
       THEN /\ last' = Response("update_rule", 422, "Unprocessable Entity",
                                rule_id, patch, user, <<>>)
            /\ UNCHANGED rules
       ELSE IF rule_id \notin DOMAIN rules
       THEN /\ last' = Response("update_rule", 404, "Business rule not found",
                                rule_id, patch, user, <<>>)
            /\ UNCHANGED rules
       ELSE /\ rules' = [rules EXCEPT
                            ![rule_id] = update_business_rule(@, BusinessRuleUpdate(patch).v)]
            /\ last' = Response("update_rule", 200, "", rule_id, patch, user,
                                rules'[rule_id])
    /\ UNCHANGED <<workflows, projects, instances, seq, sess>>

\* DELETE /rules/{rule_id} (api/workflows.py 494-514, base.py 120-135)
delete_business_rule(rule_id, user) ==
    /\ now < MaxOps
    /\ now' = now + 1
    /\ IF rule_id \notin DOMAIN rules
       THEN /\ last' = Response("delete_rule", 404, "Business rule not found",
                                rule_id, <<>>, user, <<>>)
            /\ UNCHANGED rules
       ELSE /\ rules' = [i \in DOMAIN rules \ {rule_id} |-> rules[i]]
            /\ last' = Response("delete_rule", 204, "", rule_id, <<>>, user, <<>>)
    /\ UNCHANGED <<workflows, projects, instances, seq, sess>>

\* evaluate_business_rules that executes a triggered rule: it switches it off.
evaluate_business_rules_executing(context, user) ==
    /\ now < MaxOps
    /\ now' = now + 1
    /\ LET triggered == evaluate_rules(context)
           fired == {triggered[n].rule_id : n \in 1..Len(triggered)}
       IN  /\ last' = Response("evaluate", 200, "", 0, context, user,
                               [triggered_rules |-> triggered,
                                total_triggered |-> Len(triggered)])
           /\ rules' = [i \in DOMAIN rules |->
                          IF i \in fired THEN [rules[i] EXCEPT !.is_active = FALSE]
                          ELSE rules[i]]
    /\ UNCHANGED <<workflows, projects, instances, seq, sess>>

\* POST /rules/evaluate (api/workflows.py 517-540)
evaluate_business_rules(context, user) ==
    /\ now < MaxOps
    /\ now' = now + 1
    /\ LET triggered == evaluate_rules(context)
       IN  last' = Response("evaluate", 200, "", 0, context, user,
                            [triggered_rules |-> triggered,
                             total_triggered |-> Len(triggered)])
    /\ UNCHANGED <<workflows, projects, instances, rules, seq, sess>>

InitRules ==
    /\ workflows = <<>>
    /\ projects = {}
    /\ instances = <<>>
    /\ rules = <<>>
    /\ seq = [workflows |-> 0, instances |-> 0, rules |-> 0]
    /\ now = 0
    /\ sess = NoSessions
    /\ last = NoRequest

NextRules ==
    \/ \E d \in RuleCreateInputs, u \in Users : create_business_rule_endpoint(d, u)
    \/ \E i \in RuleIds, p \in RulePatches, u \in Users :
          update_business_rule_endpoint(i, p, u)
    \/ \E i \in RuleIds, u \in Users : delete_business_rule(i, u)
    \/ \E c \in Contexts, u \in Users : evaluate_business_rules(c, u)

SpecRules == InitRules /\ [][NextRules]_vars

----------------------------------------------------------------------------
(* The workflow registry: WorkflowRepository and the workflow endpoints.   *)

DefaultLimit == 100
WorkflowCreateInputs ==
    [name : {"Sales Pipeline", " Sales ", " "}, description : {None, Some("text")},
     type : {"sales", "support"},
     stages : {"lead" :> EmptyDict @@ "closed_won" :> EmptyDict, EmptyDict},
     rules : {None}, is_active : BOOLEAN]
WorkflowPatches ==
    { "is_active" :> FALSE, "is_active" :> TRUE, "type" :> "support",
      "name" :> " Support ", "name" :> " ",
      "stages" :> ("lead" :> EmptyDict), "stages" :> EmptyDict }
TypeFilters == {None, Some(""), Some("sales"), Some("support"), Some("bogus")}
Skips == {0, 1}
Limits == {1, DefaultLimit}


\* get_by_type with the is_active conjunct left out.
workflow_get_by_type_any(workflow_type) ==
    OrderByCreatedDesc(workflows,
        {i \in DOMAIN workflows : workflows[i].type = workflow_type})

\* workflow_repository.py 39-54: WorkflowRepository.get_by_type
workflow_get_by_type(workflow_type) ==
    OrderByCreatedDesc(workflows,
        {i \in DOMAIN workflows :
            workflows[i].type = workflow_type /\ workflows[i].is_active = TRUE})

\* workflow_repository.py 56-68
get_active_workflows ==
    OrderByCreatedDesc(workflows,
        {i \in DOMAIN workflows : workflows[i].is_active = TRUE})

\* workflow_data: WorkflowCreate, the body as the schema parses it
WorkflowCreate(body) ==
    LET name == WorkflowCreate_validate_name(body.name)
    IN  IF ~name.ok \/ ~WorkflowCreate_validate_stages(body.stages)
        THEN [ok |-> FALSE, v |-> body]
        ELSE Parsed([body EXCEPT !.name = name.v])

\* workflow_update: WorkflowUpdate, the patch as the schema parses it
WorkflowUpdate(patch) ==
    IF "name" \notin DOMAIN patch THEN Parsed(patch)
    ELSE LET name == WorkflowUpdate_validate_name(patch["name"])
         IN  IF ~name.ok THEN [ok |-> FALSE, v |-> patch]
             ELSE Parsed([patch EXCEPT !["name"] = name.v])

\* workflow_repository.py 80-84: the inserted row
create_workflow(workflow_data) ==
    [name |-> workflow_data.name, description |-> workflow_data.description,
     type |-> workflow_data.type, stages |-> workflow_data.stages,
     rules |-> workflow_data.rules, is_active |-> workflow_data.is_active,
     created_at |-> now, updated_at |-> now]

\* workflow_repository.py 98-104
update_workflow(workflow, patch) ==
    LET dirty == {f \in DOMAIN patch : patch[f] # workflow[f]}
    IN  IF dirty = {} THEN workflow
        ELSE [f \in DOMAIN workflow |->
                IF f \in dirty THEN patch[f]
                ELSE IF f = "updated_at" THEN now
                ELSE workflow[f]]

\* get_workflows that answers a type it does not know with an empty page.
get_workflows_lenient(skip, limit, workflow_type, user) ==
    /\ now < MaxOps
    /\ now' = now + 1
    /\ LET req == [skip |-> skip, limit |-> limit, workflow_type |-> workflow_type]
           listing == IF ~StrTruthy(workflow_type) THEN get_active_workflows
                      ELSE IF workflow_type.v \in WorkflowType
                      THEN workflow_get_by_type(workflow_type.v)
                      ELSE <<>>
           total == Len(listing)
       IN  last' = Response("list_workflows", 200, "", 0, req, user,
                            [items |-> PySlice(listing, skip, limit),
                             total |-> total,
                             page |-> (skip \div limit) + 1,
                             size |-> limit,
                             pages |-> (total + limit - 1) \div limit])
    /\ UNCHANGED <<workflows, projects, instances, rules, seq, sess>>

\* GET / (api/workflows.py 26-68)
get_workflows(skip, limit, workflow_type, user) ==
    /\ now < MaxOps
    /\ now' = now + 1
    /\ LET req == [skip |-> skip, limit |-> limit, workflow_type |-> workflow_type]
       IN  IF StrTruthy(workflow_type) /\ workflow_type.v \notin WorkflowType
           THEN last' = Response("list_workflows", 400, "Invalid workflow type", 0,
                                 req, user, <<>>)
           ELSE LET listing == IF StrTruthy(workflow_type)
                               THEN workflow_get_by_type(workflow_type.v)
                               ELSE get_active_workflows
                    total == Len(listing)
                IN  last' = Response("list_workflows", 200, "", 0, req, user,
                                     [items |-> PySlice(listing, skip, limit),
                                      total |-> total,
                                      page |-> (skip \div limit) + 1,
                                      size |-> limit,
                                      pages |-> (total + limit - 1) \div limit])
    /\ UNCHANGED <<workflows, projects, instances, rules, seq, sess>>

\* POST / (api/workflows.py 71-90)
create_workflow_endpoint(body, user) ==
    /\ now < MaxOps
    /\ now' = now + 1
    /\ IF ~WorkflowCreate(body).ok
       THEN /\ last' = Response("create_workflow", 422, "Unprocessable Entity", 0,
                                body, user, <<>>)
            /\ UNCHANGED <<workflows, seq>>
       ELSE /\ seq.workflows < MaxWorkflows
            /\ seq' = [seq EXCEPT !.workflows = @ + 1]
            /\ workflows' = (seq'.workflows :> create_workflow(WorkflowCreate(body).v))
                               @@ workflows
            /\ last' = Response("create_workflow", 201, "", seq'.workflows, body,
                                user, workflows'[seq'.workflows])
    /\ UNCHANGED <<projects, instances, rules, sess>>

\* GET /{workflow_id} (api/workflows.py 93-116)
get_workflow(workflow_id, user) ==
    /\ now < MaxOps
    /\ now' = now + 1
    /\ IF workflow_id \notin DOMAIN workflows
       THEN last' = Response("get_workflow", 404, "Workflow not found",
                             workflow_id, <<>>, user, <<>>)
       ELSE last' = Response("get_workflow", 200, "", workflow_id, <<>>, user,
                             workflows[workflow_id])
    /\ UNCHANGED <<workflows, projects, instances, rules, seq, sess>>

\* PUT /{workflow_id} (api/workflows.py 119-145)
update_workflow_endpoint(workflow_id, patch, user) ==
    /\ now < MaxOps
    /\ now' = now + 1
    /\ IF ~WorkflowUpdate(patch).ok
       THEN /\ last' = Response("update_workflow", 422, "Unprocessable Entity",
                                workflow_id, patch, user, <<>>)
            /\ UNCHANGED workflows
       ELSE IF workflow_id \notin DOMAIN workflows
       THEN /\ last' = Response("update_workflow", 404, "Workflow not found",
                                workflow_id, patch, user, <<>>)
            /\ UNCHANGED workflows
       ELSE /\ workflows' = [workflows EXCEPT
                                ![workflow_id] = update_workflow(@, WorkflowUpdate(patch).v)]
            /\ last' = Response("update_workflow", 200, "", workflow_id, patch, user,
                                workflows'[workflow_id])
    /\ UNCHANGED <<projects, instances, rules, seq, sess>>

\* DELETE /{workflow_id} (api/workflows.py 148-168, base.py 120-135).  The
\* flush of the delete first sets workflow_id of the workflow's instances to
\* NULL (Workflow.instances has no delete cascade); the column is NOT NULL, so
\* with an instance left the flush raises and the request ends 500.
delete_workflow(workflow_id, user) ==
    /\ now < MaxOps
    /\ now' = now + 1
    /\ IF workflow_id \notin DOMAIN workflows
       THEN /\ last' = Response("delete_workflow", 404, "Workflow not found",
                                workflow_id, <<>>, user, <<>>)
            /\ UNCHANGED workflows
       ELSE IF \E i \in DOMAIN instances : instances[i].workflow_id = workflow_id
       THEN /\ last' = Response("delete_workflow", 500, "Internal server error",
                                workflow_id, <<>>, user, <<>>)
            /\ UNCHANGED workflows
       ELSE /\ workflows' = [i \in DOMAIN workflows \ {workflow_id} |-> workflows[i]]
            /\ last' = Response("delete_workflow", 204, "", workflow_id, <<>>, user,
                                <<>>)
    /\ UNCHANGED <<projects, instances, rules, seq, sess>>

InitWorkflow ==
    /\ workflows = <<>>
    /\ projects = {}
    /\ instances = <<>>
    /\ rules = <<>>
    /\ seq = [workflows |-> 0, instances |-> 0, rules |-> 0]
    /\ now = 0
    /\ sess = NoSessions
    /\ last = NoRequest

NextWorkflow ==
    \/ \E d \in WorkflowCreateInputs, u \in Users : create_workflow_endpoint(d, u)
    \/ \E i \in WorkflowIds, p \in WorkflowPatches, u \in Users :
          update_workflow_endpoint(i, p, u)
    \/ \E i \in WorkflowIds, u \in Users : delete_workflow(i, u)
    \/ \E k \in Skips, l \in Limits, t \in TypeFilters, u \in Users :
          get_workflows(k, l, t, u)
    \/ \E i \in WorkflowIds, u \in Users : get_workflow(i, u)

SpecWorkflow == InitWorkflow /\ [][NextWorkflow]_vars

----------------------------------------------------------------------------
(* Creating and fetching: the create and get endpoints of workflows and of *)
(* instances over one database.                                            *)

InitCreateGet ==
    /\ workflows = <<>>
    /\ projects = {1}
    /\ instances = <<>>
    /\ rules = <<>>
    /\ seq = [workflows |-> 0, instances |-> 0, rules |-> 0]
    /\ now = 0
    /\ sess = NoSessions
    /\ last = NoRequest

NextCreateGet ==
    \/ \E d \in WorkflowCreateInputs, u \in Users : create_workflow_endpoint(d, u)
    \/ \E i \in WorkflowIds, u \in Users : get_workflow(i, u)
    \/ \E d \in InstanceCreateInputs, u \in Users :
          create_workflow_instance_endpoint(d, u)
    \/ \E i \in InstanceIds, u \in Users : get_workflow_instance(i, u)

SpecCreateGet == InitCreateGet /\ [][NextCreateGet]_vars

----------------------------------------------------------------------------
(* Listing and counting the instances: get_workflow_instances and          *)
(* WorkflowInstanceRepository.get_workflow_instance_statistics.            *)

\* bool(x) of an Optional[int]: None and 0 are falsy.
IntTruthy(j) == ~j.null /\ j.v # 0

\* workflow_repository.py 165-181
get_by_project(project_id) ==
    OrderByCreatedDesc(instances,
        {i \in DOMAIN instances : instances[i].project_id = project_id})

\* workflow_repository.py 183-199
get_by_workflow(workflow_id) ==
    OrderByCreatedDesc(instances,
        {i \in DOMAIN instances : instances[i].workflow_id = workflow_id})

\* workflow_repository.py 201-217
get_by_stage(stage) ==
    OrderByCreatedDesc(instances,
        {i \in DOMAIN instances : instances[i].current_stage = stage})

\* GET /instances/ (api/workflows.py 200-245).  With no truthy filter the
\* handler calls instance_repo.get_all, which neither the repository nor its
\* base class defines: AttributeError, answered 500 by the global handler.
get_workflow_instances(skip, limit, project_id, workflow_id, stage, user) ==
    /\ now < MaxOps
    /\ now' = now + 1
    /\ LET req == [skip |-> skip, limit |-> limit, project_id |-> project_id,
                   workflow_id |-> workflow_id, stage |-> stage]
           listing == IF IntTruthy(project_id) THEN get_by_project(project_id.v)
                      ELSE IF IntTruthy(workflow_id) THEN get_by_workflow(workflow_id.v)
                      ELSE get_by_stage(stage.v)
           total == Len(listing)
           paginated == PySlice(listing, skip, limit)
       IN  IF ~IntTruthy(project_id) /\ ~IntTruthy(workflow_id) /\ ~StrTruthy(stage)
           THEN last' = Response("list_instances", 500, "Internal server error", 0,
                                 req, user, <<>>)
           ELSE IF \E n \in 1..Len(paginated) :
                      ~WorkflowInstanceResponse_from_orm(instances[paginated[n]])
           THEN last' = Response("list_instances", 500, "Internal server error", 0,
                                 req, user, <<>>)
           ELSE last' = Response("list_instances", 200, "", 0, req, user,
                                 [items |-> paginated,
                                  total |-> total,
                                  page |-> (skip \div limit) + 1,
                                  size |-> limit,
                                  pages |-> (total + limit - 1) \div limit])
    /\ UNCHANGED <<workflows, projects, instances, rules, seq, sess>>

\* get_workflow_instance_statistics with one entry per stage that is stored.
get_workflow_instance_statistics_by_stored_stage ==
    [total_instances |-> Cardinality(DOMAIN instances),
     completed_instances |->
        Cardinality({i \in DOMAIN instances : instances[i].is_completed = TRUE}),
     instances_by_stage |->
        [stage \in WorkflowStage
                    \cup {instances[i].current_stage : i \in DOMAIN instances} |->
            Cardinality({i \in DOMAIN instances : instances[i].current_stage = stage})]]

\* workflow_repository.py 303-323
get_workflow_instance_statistics ==
    [total_instances |-> Cardinality(DOMAIN instances),
     completed_instances |->
        Cardinality({i \in DOMAIN instances : instances[i].is_completed = TRUE}),
     instances_by_stage |->
        [stage \in WorkflowStage |->
            Cardinality({i \in DOMAIN instances : instances[i].current_stage = stage})]]

\* A call of get_workflow_instance_statistics; no endpoint wraps it.
instance_statistics ==
    /\ now < MaxOps
    /\ now' = now + 1
    /\ last' = Response("instance_statistics", 200, "", 0, <<>>, 0,
                        get_workflow_instance_statistics)
    /\ UNCHANGED <<workflows, projects, instances, rules, seq, sess>>

ListingInstanceInputs ==
    [workflow_id : {1, 2}, project_id : {1, 2}, current_stage : {"lead", "custom"},
     stage_data : {None}, history : {None}, is_completed : BOOLEAN]
ListingPatches == {"is_completed" :> TRUE}
ListingTransitions ==
    [from_stage : {"lead"}, to_stage : {"closed_won"}, transition_data : {None},
     triggered_by : {None}]
ProjectFilters == {None, Some(0), Some(1)}
WorkflowFilters == {None, Some(0), Some(2)}
StageFilters == {None, Some("lead")}

SupportDesk ==
    [name |-> "Support Desk", description |-> None, type |-> "support",
     stages |-> ("lead" :> EmptyDict), rules |-> None, is_active |-> TRUE,
     created_at |-> 0, updated_at |-> 0]

InitListing ==
    /\ workflows = (1 :> SalesPipeline @@ 2 :> SupportDesk)
    /\ projects = {1, 2}
    /\ instances = <<>>
    /\ rules = <<>>
    /\ seq = [workflows |-> 2, instances |-> 0, rules |-> 0]
    /\ now = 0
    /\ sess = NoSessions
    /\ last = NoRequest

NextListing ==
    \/ \E d \in ListingInstanceInputs, u \in Users :
          create_workflow_instance_endpoint(d, u)
    \/ \E i \in InstanceIds, p \in ListingPatches, u \in Users :
          update_workflow_instance_endpoint(i, p, u)
    \/ \E i \in InstanceIds, b \in ListingTransitions, u \in Users :
          transition_workflow_stage(i, b, u)
    \/ \E k \in Skips, l \in Limits, p \in ProjectFilters, w \in WorkflowFilters,
          g \in StageFilters, u \in Users :
          get_workflow_instances(k, l, p, w, g, u)
    \/ instance_statistics

SpecListing == InitListing /\ [][NextListing]_vars

----------------------------------------------------------------------------
(* Instances that are created without history and then changed by          *)
(* transitions alone, requested by several callers.                        *)

Callers == {1, 2}
ChainInstanceInputs ==
    [workflow_id : {1}, project_id : {1}, current_stage : {"lead"},
     stage_data : {None}, history : {None, Some(<<>>)}, is_completed : {FALSE}]
ChainTransitions ==
    [from_stage : {"lead"}, to_stage : {"closed_won", "custom"},
     transition_data : {None, Some("a" :> JInt(1))},
     notes : {None, Some("note")}, triggered_by : {None, Some(2)}]

InitChain ==
    /\ workflows = (1 :> SalesPipeline)
    /\ projects = {1}
    /\ instances = <<>>
    /\ rules = <<>>
    /\ seq = [workflows |-> 1, instances |-> 0, rules |-> 0]
    /\ now = 0
    /\ sess = NoSessions
    /\ last = NoRequest

NextChain ==
    \/ \E d \in ChainInstanceInputs, u \in Callers :
          create_workflow_instance_endpoint(d, u)
    \/ \E i \in InstanceIds, b \in ChainTransitions, u \in Callers :
          transition_workflow_stage(i, b, u)

SpecChain == InitChain /\ [][NextChain]_vars

----------------------------------------------------------------------------
(* Create, read, update and delete of workflows and business rules, with   *)
(* instances that refer to the workflows.                                  *)

CrudInstanceInputs ==
    [workflow_id : {1}, project_id : {1}, current_stage : {"lead"},
     stage_data : {Some("b" :> JInt(2))}, history : {None}, is_completed : {FALSE}]
CrudWorkflowInputs ==
    [name : {"Support Desk"}, description : {None}, type : {"support"},
     stages : {"lead" :> EmptyDict}, rules : {None}, is_active : {TRUE}]
CrudWorkflowPatches == {"is_active" :> FALSE, "name" :> " "}
CrudRuleInputs ==
    [name : {"rule"}, rule_type : {"validation", "bogus"},
     conditions : {EmptyDict}, actions : RuleActions, is_active : {TRUE}]
CrudRulePatches ==
    {"rule_type" :> "automation", "rule_type" :> "bogus", "is_active" :> FALSE}
RuleTypeFilters == {None, Some("validation"), Some("automation"), Some("bogus")}

InitCrud ==
    /\ workflows = (1 :> SalesPipeline)
    /\ projects = {1}
    /\ instances = <<>>
    /\ rules = <<>>
    /\ seq = [workflows |-> 1, instances |-> 0, rules |-> 0]
    /\ now = 0
    /\ sess = NoSessions
    /\ last = NoRequest

NextCrud ==
    \/ \E d \in CrudWorkflowInputs, u \in Users : create_workflow_endpoint(d, u)
    \/ \E i \in WorkflowIds, p \in CrudWorkflowPatches, u \in Users :
          update_workflow_endpoint(i, p, u)
    \/ \E i \in WorkflowIds, u \in Users : delete_workflow(i, u)
    \/ \E i \in WorkflowIds, u \in Users : get_workflow(i, u)
    \/ \E d \in CrudInstanceInputs, u \in Users :
          create_workflow_instance_endpoint(d, u)
    \/ \E d \in CrudRuleInputs, u \in Users : create_business_rule_endpoint(d, u)
    \/ \E i \in RuleIds, p \in CrudRulePatches, u \in Users :
          update_business_rule_endpoint(i, p, u)
    \/ \E i \in RuleIds, u \in Users : delete_business_rule(i, u)
    \/ \E i \in RuleIds, u \in Users : get_business_rule(i, u)
    \/ \E k \in Skips, l \in Limits, t \in RuleTypeFilters, u \in Users :
          get_business_rules(k, l, t, u)

SpecCrud == InitCrud /\ [][NextCrud]_vars

----------------------------------------------------------------------------
(* Claims about the instance stage machine, checked under SpecInstance.    *)

InstanceFields ==
    {"workflow_id", "project_id", "current_stage", "stage_data", "history",
     "is_completed"}
IsPrefix(s, t) == Len(s) <= Len(t) /\ SubSeq(t, 1, Len(s)) = s
Transitioned == last.op = "transition" /\ last.status = 200

\* C1: every successful transitionStage appends exactly one entry to the
\* persisted history, leaves the earlier entries as they were, and the new
\* entry's from_stage is the current_stage the instance had before the call.
C1_AppendOnlyHistory ==
    [][(last'.op = "transition" /\ last'.status = 200) =>
        LET before == instances[last'.id]
            after == instances'[last'.id]
            n == Len(before.history.v)
        IN  /\ ~after.history.null
            /\ Len(after.history.v) = n + 1
            /\ SubSeq(after.history.v, 1, n) = before.history.v
            /\ after.history.v[n + 1].from_stage = before.current_stage]_vars

\* C2: after a successful transitionStage with non-empty transition_data D on
\* an instance whose stage_data is S, the persisted stage_data is S updated
\* with D: D's value on D's keys, S's value on S's other keys, no other key.
C2_StageDataMerge ==
    [][(last'.op = "transition" /\ last'.status = 200
          /\ DictTruthy(last'.req.transition_data)) =>
        LET S == instances[last'.id].stage_data.v
            D == last'.req.transition_data.v
            after == instances'[last'.id].stage_data
        IN  /\ ~after.null
            /\ DOMAIN after.v = DOMAIN S \cup DOMAIN D
            /\ \A k \in DOMAIN D : after.v[k] = D[k]
            /\ \A k \in DOMAIN S \ DOMAIN D : after.v[k] = S[k]]_vars

\* C5 as stated: no instance operation (create, update, transitionStage)
\* truncates or reorders the history of an existing instance: the history
\* before the operation is a prefix of the history after it.
C5_HistoryNeverTruncated ==
    [][\A i \in DOMAIN instances :
         /\ i \in DOMAIN instances'
         /\ IsPrefix(instances[i].history.v, instances'[i].history.v)]_vars

\* C5 as amended: the history before is a prefix of the history after for
\* every operation other than an update whose patch supplies the history
\* field (that update replaces the history by the supplied value).
C5_HistoryPrefixUnlessPatched ==
    [][\A i \in DOMAIN instances :
         /\ i \in DOMAIN instances'
         /\ ~(last'.op = "update_instance" /\ last'.id = i
                /\ "history" \in DOMAIN last'.req)
              => IsPrefix(instances[i].history.v, instances'[i].history.v)
         /\ (last'.op = "update_instance" /\ last'.id = i /\ last'.status = 200
                /\ "history" \in DOMAIN last'.req)
              => instances'[i].history = last'.req["history"]]_vars

\* A transition served on an instance that was created with a history.
C5_Witness ==
    /\ Transitioned
    /\ ListTruthy(instances[last.id].history)
    /\ instances[last.id].history.v[1] = SuppliedEntry

\* C6: a create-instance request (a body the schema accepts) whose workflow_id
\* does not resolve is answered 404 "Workflow not found", one whose project_id
\* does not resolve 404 "Project not found", both without changing any stored
\* record; and a row is inserted only for a request whose two ids resolve.
C6_ReferentialValidation ==
    [][(last'.op = "create_instance"
          /\ WorkflowInstanceCreate_validate_current_stage(last'.req.current_stage).ok) =>
        LET d == last'.req
            wf == d.workflow_id \in DOMAIN workflows
            pr == d.project_id \in projects
        IN  /\ ~wf => /\ last'.status = 404 /\ last'.detail = "Workflow not found"
                      /\ UNCHANGED <<workflows, projects, instances, rules, seq>>
            /\ (wf /\ ~pr) =>
                      /\ last'.status = 404 /\ last'.detail = "Project not found"
                      /\ UNCHANGED <<workflows, projects, instances, rules, seq>>
            /\ \A i \in DOMAIN instances' \ DOMAIN instances :
                      /\ wf /\ pr /\ last'.status = 201
                      /\ instances'[i].workflow_id = d.workflow_id
                      /\ instances'[i].project_id = d.project_id]_vars

\* A request naming an unknown project was refused while an instance exists.
C6_Witness ==
    /\ last.op = "create_instance" /\ last.status = 404
    /\ last.detail = "Project not found"
    /\ last.req.project_id \notin projects
    /\ DOMAIN instances # {}

\* C7: transitionStage on an existing instance succeeds for every to_stage, and
\* afterwards current_stage is to_stage and the last history entry, the one the
\* call appended, has to_stage as its to_stage.
C7_UnconditionalTransition ==
    [][(last'.op = "transition" /\ last'.id \in DOMAIN instances) =>
        LET after == instances'[last'.id]
        IN  /\ last'.status = 200
            /\ after.current_stage = last'.req.to_stage
            /\ ListTruthy(after.history)
            /\ after.history.v[Len(after.history.v)].to_stage = last'.req.to_stage]_vars

\* C16: is_completed changes only by explicit update: a transition leaves it as
\* it was for every to_stage, and it differs between two consecutive states
\* only for the instance an update request patched with is_completed.
C16_CompletedOnlyByUpdate ==
    [][\A i \in DOMAIN instances :
         /\ i \in DOMAIN instances'
         /\ instances'[i].is_completed # instances[i].is_completed =>
              /\ last'.op = "update_instance" /\ last'.id = i
              /\ "is_completed" \in DOMAIN last'.req
              /\ instances'[i].is_completed = last'.req["is_completed"]
         /\ (last'.op = "transition" /\ last'.id = i) =>
              instances'[i].is_completed = instances[i].is_completed]_vars

\* A transition to closed_won served on an instance that is not completed.
C16_Witness ==
    /\ Transitioned
    /\ last.req.to_stage = "closed_won"
    /\ instances[last.id].current_stage = "closed_won"
    /\ ~instances[last.id].is_completed

\* C18: an update of an instance generates no transition record: every field
\* the patch does not supply keeps its value, so the history is unchanged when
\* the patch changes current_stage without supplying history, and stage_data is
\* unchanged when the patch does not supply it; no other instance changes.
\* This holds of every update request on a stored instance, whatever it answers.
C18_UpdateKeepsUnsupplied ==
    [][(last'.op = "update_instance" /\ last'.id \in DOMAIN instances) =>
         /\ DOMAIN instances' = DOMAIN instances
         /\ \A i \in DOMAIN instances \ {last'.id} : instances'[i] = instances[i]
         /\ \A f \in InstanceFields \ DOMAIN last'.req :
                instances'[last'.id][f] = instances[last'.id][f]
         /\ instances'[last'.id].created_at = instances[last'.id].created_at]_vars

\* An update changed the current_stage of an instance that has a history.
C18_Witness ==
    /\ last.op = "update_instance" /\ last.status = 200
    /\ "current_stage" \in DOMAIN last.req
    /\ instances[last.id].current_stage = "custom"
    /\ instances[last.id].updated_at = now - 1
    /\ ListTruthy(instances[last.id].history)

\* C19: the from_stage of a transition request is never verified: the request
\* succeeds for every from_stage, one that differs from the instance's
\* current_stage too, and the from_stage of the history entry the transition
\* writes is the current_stage the instance had, not the request's from_stage.
C19_FromStageUnverified ==
    [][(last'.op = "transition" /\ last'.id \in DOMAIN instances) =>
        LET before == instances[last'.id]
            after == instances'[last'.id]
        IN  /\ last'.status = 200
            /\ Len(after.history.v) = Len(before.history.v) + 1
            /\ after.history.v[Len(after.history.v)].from_stage = before.current_stage]_vars

\* C25: a transition records one history entry; with transition_data absent or
\* empty the stage_data stays as it was and the entry's data is the empty
\* mapping; with non-empty transition_data the entry's data is exactly that
\* transition_data, not the merged stage_data.
C25_TransitionDataFrame ==
    [][(last'.op = "transition" /\ last'.id \in DOMAIN instances) =>
        LET before == instances[last'.id]
            after == instances'[last'.id]
            D == last'.req.transition_data
            n == Len(before.history.v)
        IN  /\ Len(after.history.v) = n + 1
            /\ ~DictTruthy(D) =>
                  /\ after.stage_data = before.stage_data
                  /\ after.history.v[n + 1].data = EmptyDict
            /\ DictTruthy(D) => after.history.v[n + 1].data = D.v]_vars

\* C13: the current_stage of every stored instance is a non-empty string with
\* a non-blank character, whatever instances were created, updated and
\* transitioned.
C13_CurrentStageNonEmpty ==
    \A i \in DOMAIN instances : strip(instances[i].current_stage) # ""

----------------------------------------------------------------------------
(* Claims about creating and fetching, checked under SpecCreateGet.        *)

WorkflowFields == {"name", "description", "type", "stages", "rules", "is_active"}
SameFields(F, record, input) == \A f \in F : record[f] = input[f]
\* The request served last created the record that this one fetches.
GetAfterCreate(create, get) ==
    /\ last.op = create /\ last.status = 201
    /\ last'.op = get /\ last'.id = last.id
\* Two requests in a row fetch the same id.
GetTwice(get) == last.op = get /\ last'.op = get /\ last'.id = last.id

\* C11 as stated: get(id) on the id a create returned yields a record whose
\* fields equal the create request's values exactly, for workflows and for
\* instances, and two gets in a row of one id return identical records.
C11_CreateGetRoundTrip ==
    [][/\ GetAfterCreate("create_workflow", "get_workflow") =>
            /\ last'.status = 200
            /\ SameFields(WorkflowFields, last'.body, last.req)
       /\ GetAfterCreate("create_instance", "get_instance") =>
            /\ last'.status = 200
            /\ SameFields(InstanceFields, last'.body, last.req)
       /\ (GetTwice("get_workflow") \/ GetTwice("get_instance")) =>
            /\ last'.status = last.status
            /\ last'.body = last.body]_vars

\* C11 as amended: the fetched fields equal the create request's values, name
\* (workflows) and current_stage (instances) with the surrounding whitespace
\* removed; two gets in a row of one id return identical records.
C11_CreateGetRoundTripStripped ==
    [][/\ GetAfterCreate("create_workflow", "get_workflow") =>
            /\ last'.status = 200
            /\ SameFields(WorkflowFields, last'.body,
                          [last.req EXCEPT !.name = strip(@)])
       /\ GetAfterCreate("create_instance", "get_instance") =>
            /\ last'.status = 200
            /\ SameFields(InstanceFields, last'.body,
                          [last.req EXCEPT !.current_stage = strip(@)])
       /\ (GetTwice("get_workflow") \/ GetTwice("get_instance")) =>
            /\ last'.status = last.status
            /\ last'.body = last.body]_vars

\* An instance created without a history and with a padded stage has just
\* been fetched, after a workflow created under a padded name.
C11_Witness ==
    /\ last.op = "get_instance" /\ last.status = 200
    /\ last.body.created_at = now - 2
    /\ last.body.history.null
    /\ \E w \in DOMAIN workflows : workflows[w].name = "Sales"

----------------------------------------------------------------------------
(* Claims about the rule evaluator, checked under SpecRules.               *)

Evaluated == last.op = "evaluate" /\ last.status = 200
\* The ids of the rules an evaluate response reports.
Reported == {last.body.triggered_rules[n].rule_id :
                n \in 1..Len(last.body.triggered_rules)}
Holds(conditions, context) ==
    \A k \in DOMAIN conditions :
        k \in DOMAIN context /\ PyEq(context[k], conditions[k])

\* C3: an evaluation reports an active rule exactly when every key of its
\* conditions is present in the context with an equal value: a missing key or
\* one unequal value keeps the rule out, the context's other keys play no part.
C3_ConjunctionOfEqualities ==
    Evaluated =>
        \A r \in DOMAIN rules :
            rules[r].is_active =>
                /\ (r \in Reported) <=> Holds(rules[r].conditions, last.req)
                /\ (r \in Reported) <=>
                     Holds(rules[r].conditions,
                           [k \in DOMAIN last.req \cap DOMAIN rules[r].conditions
                              |-> last.req[k]])

\* One rule reported although the context has a key it does not name, another
\* kept out because a key of its conditions is missing from the context.
C3_Witness ==
    /\ Evaluated
    /\ \E r \in Reported :
          /\ DOMAIN rules[r].conditions # {}
          /\ DOMAIN last.req \ DOMAIN rules[r].conditions # {}
    /\ \E r \in DOMAIN rules \ Reported :
          /\ rules[r].is_active
          /\ DOMAIN rules[r].conditions \ DOMAIN last.req # {}

\* C4: no evaluation reports a rule that is inactive when it is evaluated.
C4_InactiveNeverFire ==
    Evaluated => \A r \in Reported : r \in DOMAIN rules /\ rules[r].is_active

\* An evaluation whose context satisfies a rule that was created active and
\* then updated to inactive.
C4_Witness ==
    /\ Evaluated
    /\ \E r \in DOMAIN rules :
          /\ ~rules[r].is_active
          /\ rules[r].updated_at > rules[r].created_at
          /\ Holds(rules[r].conditions, last.req)

\* C9: every evaluation, whatever the context, reports every active rule whose
\* conditions are the empty mapping.
C9_EmptyConditionsMatch ==
    Evaluated =>
        \A r \in DOMAIN rules :
            (rules[r].is_active /\ DOMAIN rules[r].conditions = {}) => r \in Reported

\* The empty context evaluated against an active rule without conditions.
C9_Witness ==
    /\ Evaluated
    /\ DOMAIN last.req = {}
    /\ \E r \in DOMAIN rules : rules[r].is_active /\ DOMAIN rules[r].conditions = {}

\* C17: an evaluation returns one entry {rule_id, rule_name, rule_type, actions}
\* for each active rule whose conditions match the context and none for any
\* other rule, the entries in the order of the active-rules listing (creation
\* time descending), and total_triggered is the number of entries.
C17_EvaluateOutput ==
    Evaluated =>
        LET out == last.body.triggered_rules
            matching == {r \in DOMAIN rules :
                            rules[r].is_active /\ Holds(rules[r].conditions, last.req)}
        IN  /\ Len(out) = Cardinality(matching)
            /\ Reported = matching
            /\ \A n \in 1..Len(out) :
                  /\ DOMAIN out[n] = {"rule_id", "rule_name", "rule_type", "actions"}
                  /\ out[n].rule_name = rules[out[n].rule_id].name
                  /\ out[n].rule_type = rules[out[n].rule_id].rule_type
                  /\ out[n].actions = rules[out[n].rule_id].actions
            /\ \A n, m \in 1..Len(out) :
                  n < m => rules[out[n].rule_id].created_at
                              > rules[out[m].rule_id].created_at
            /\ last.body.total_triggered = Len(out)

\* Two rules reported for a non-empty context, the later created first.
C17_Witness ==
    /\ Evaluated
    /\ Len(last.body.triggered_rules) = 2
    /\ last.body.triggered_rules[1].rule_id = 2
    /\ last.body.triggered_rules[2].rule_id = 1
    /\ DOMAIN last.req # {}

\* C14: a condition value and a context value of different types are never
\* treated as equal: for every rule an evaluation reports, the context holds,
\* under every key of the rule's conditions, a value of the same type and the
\* same value as the condition's.
C14_StrictTypedEquality ==
    Evaluated =>
        \A r \in Reported :
            \A k \in DOMAIN rules[r].conditions :
                /\ k \in DOMAIN last.req
                /\ last.req[k].t = rules[r].conditions[k].t
                /\ last.req[k].n = rules[r].conditions[k].n

\* C26: an evaluation is read-only: it changes no stored rule, workflow or
\* instance (no action of a triggered rule is executed), and an evaluation of
\* the context the request before it evaluated returns the same list.
C26_EvaluateReadOnly ==
    [][ /\ last'.op = "evaluate" =>
              UNCHANGED <<rules, workflows, instances, projects, seq>>
        /\ (last.op = "evaluate" /\ last'.op = "evaluate" /\ last'.req = last.req)
              => last'.body = last.body
      ]_vars

\* An evaluation reported a rule that has actions; the rule is still stored
\* and active, as it was created.
C26_Witness ==
    /\ Evaluated
    /\ last.body.total_triggered >= 1
    /\ \A r \in Reported :
          /\ DOMAIN rules[r].actions # {}
          /\ rules[r].is_active
          /\ rules[r].updated_at = rules[r].created_at
    /\ now = MaxOps

\* The context C2 has every key of the context C, with the same value.
Extends(C2, C) == DOMAIN C \subseteq DOMAIN C2 /\ \A k \in DOMAIN C : C2[k] = C[k]
TriggeredBy(context) ==
    {r \in DOMAIN rules :
        rules[r].is_active = TRUE /\ evaluate_conditions(rules[r].conditions, context)}

\* C30: matching is monotone in the context: every rule an evaluation of a
\* context reports is also reported, in the same store state, for every
\* context that has all of its keys with the same values; more keys never
\* un-trigger a rule.
C30_MonotoneMatching ==
    Evaluated =>
        \A C2 \in Contexts :
            Extends(C2, last.req) => Reported \subseteq TriggeredBy(C2)

\* An evaluation of a one-key context reported a rule with conditions, and a
\* context with a second key extends the evaluated one.
C30_Witness ==
    /\ Evaluated
    /\ Cardinality(DOMAIN last.req) = 1
    /\ \E r \in Reported : DOMAIN rules[r].conditions # {}
    /\ \E C2 \in Contexts : Extends(C2, last.req) /\ DOMAIN C2 # DOMAIN last.req

----------------------------------------------------------------------------
(* Claims about the workflow registry, checked under SpecWorkflow.         *)

Listed == last.op = "list_workflows" /\ last.status = 200
\* The workflows a listing request selects.
Selected(workflow_type) ==
    {i \in DOMAIN workflows :
        /\ workflows[i].is_active
        /\ StrTruthy(workflow_type) => workflows[i].type = workflow_type.v}

\* C10: a listing, by type or without one, never returns an inactive workflow;
\* its total counts exactly the active workflows (of the type asked for), its
\* items are those workflows cut to the page asked for, and with the default
\* page they are exactly those workflows.
C10_ListingExcludesInactive ==
    Listed =>
        LET want == Selected(last.req.workflow_type)
            items == last.body.items
        IN  /\ \A n \in 1..Len(items) :
                  items[n] \in DOMAIN workflows /\ workflows[items[n]].is_active
            /\ Range(items) \subseteq want
            /\ last.body.total = Cardinality(want)
            /\ Len(items) = Cardinality(Range(items))
            /\ Len(items) = Min(last.req.limit,
                                IF last.req.skip < Cardinality(want)
                                THEN Cardinality(want) - last.req.skip ELSE 0)
            /\ (last.req.skip = 0 /\ last.req.limit = DefaultLimit) =>
                  Range(items) = want

\* A listing by type that leaves out an inactive workflow of that type and
\* returns an active one.
C10_Witness ==
    /\ Listed
    /\ StrTruthy(last.req.workflow_type)
    /\ last.body.items # <<>>
    /\ \E i \in DOMAIN workflows :
          /\ ~workflows[i].is_active
          /\ workflows[i].type = last.req.workflow_type.v

C12_StagesNonEmpty ==
    \A w \in DOMAIN workflows : DOMAIN workflows[w].stages # {}

----------------------------------------------------------------------------
(* Claims about concurrent transitions, checked under SpecRace.            *)

\* Both requests answered 200 for the same instance, each having loaded the
\* row before the other committed.
Raced ==
    /\ \A s \in Sessions : sess[s].pc = "done" /\ sess[s].status = 200
    /\ sess[1].id = sess[2].id
    /\ \A s \in Sessions : sess[s].loaded_at = 0
LastWriter == CHOOSE s \in Sessions : \A q \in Sessions : sess[q].committed_at <= sess[s].committed_at
FirstWriter == CHOOSE s \in Sessions : s # LastWriter

\* C15: a transition request on an id that names no instance, be it absent when
\* the endpoint looks it up or gone when the repository looks it up again, is
\* answered 404 and leaves every stored instance unchanged.
C15_TransitionNotFound ==
    [][\A s \in Sessions :
         (sess[s].pc # "done" /\ sess'[s].pc = "done"
            /\ sess'[s].id \notin DOMAIN instances) =>
              /\ sess'[s].status = 404
              /\ instances' = instances]_vars

\* C8: when two transitions of one instance have both loaded the row before
\* either committed, the last writer wins: the persisted row is the one the
\* request that committed last wrote back, its to_stage as current_stage, the
\* history it loaded with its own entry appended, the stage_data it loaded
\* updated with its own transition_data.
C8_LastWriterWins ==
    Raced =>
        LET w == sess[LastWriter]
            row == instances[w.id]
        IN  /\ row.current_stage = w.body.to_stage
            /\ row.history.v = Append(w.instance.history.v, w.record)
            /\ DictTruthy(w.body.transition_data) =>
                  row.stage_data.v = DictUpdate(w.instance.stage_data.v,
                                                w.body.transition_data.v)

\* The state the race is known for: both requests answered 200, yet the
\* history holds the last writer's entry and not the first writer's, and the
\* key the first writer put into stage_data is gone.
LostEntry ==
    /\ Raced
    /\ LET w == sess[LastWriter]
           f == sess[FirstWriter]
           row == instances[w.id]
       IN  /\ row.history.v = <<w.record>>
           /\ f.record # w.record
           /\ DictTruthy(f.body.transition_data)
           /\ \E k \in DOMAIN f.body.transition_data.v : k \notin DOMAIN row.stage_data.v

----------------------------------------------------------------------------
(* Claims about create, read, update and delete, checked under SpecCrud.   *)

ValidationError(r) == r.status \in {400, 422}

\* C21: a rule type outside {validation, automation, notification} is a
\* validation error wherever it is supplied: the create of a rule with such a
\* rule_type, the update of a rule to such a rule_type and the listing of rules
\* with such a rule_type filter each end with a validation error status.
C21_RuleTypeValidated ==
    /\ (last.op = "create_rule" /\ last.req.rule_type \notin RuleType)
          => ValidationError(last)
    /\ (last.op = "update_rule" /\ "rule_type" \in DOMAIN last.req
            /\ last.req["rule_type"] \notin RuleType)
          => ValidationError(last)
    /\ (last.op = "list_rules" /\ ~last.req.rule_type.null
            /\ last.req.rule_type.v \notin RuleType)
          => ValidationError(last)

Without(table, id) == [i \in DOMAIN table \ {id} |-> table[i]]

\* C22: an update or a delete of a workflow or of a business rule whose id is
\* unknown ends 404 and changes no stored workflow, rule or instance; a delete
\* of a known id removes that record and no other, and a get of an id answers
\* 404 exactly when no record has that id, so a get after the delete answers
\* 404.  (Updates are taken with a body the schema accepts.)
C22_UnknownIdNotFound ==
    [][ /\ (\/ last'.op = "update_workflow" /\ WorkflowUpdate(last'.req).ok
            \/ last'.op = "delete_workflow")
           /\ last'.id \notin DOMAIN workflows
           => last'.status = 404 /\ UNCHANGED <<workflows, rules, instances>>
        /\ (\/ last'.op = "update_rule" /\ BusinessRuleUpdate(last'.req).ok
            \/ last'.op = "delete_rule")
           /\ last'.id \notin DOMAIN rules
           => last'.status = 404 /\ UNCHANGED <<workflows, rules, instances>>
        /\ (last'.op = "delete_workflow" /\ last'.id \in DOMAIN workflows)
           => /\ workflows' = Without(workflows, last'.id)
              /\ UNCHANGED <<rules, instances>>
        /\ (last'.op = "delete_rule" /\ last'.id \in DOMAIN rules)
           => /\ rules' = Without(rules, last'.id)
              /\ UNCHANGED <<workflows, instances>>
        /\ last'.op = "get_workflow"
           => (last'.status = 404 <=> last'.id \notin DOMAIN workflows')
        /\ last'.op = "get_rule"
           => (last'.status = 404 <=> last'.id \notin DOMAIN rules')
      ]_vars

\* C23: the delete of a workflow that one or more instances refer to succeeds
\* and removes the workflow record only: every instance stays as it was, its
\* workflow_id, current_stage, stage_data and history included.
C23_DeleteDoesNotCascade ==
    [][ (/\ last'.op = "delete_workflow"
         /\ last'.id \in DOMAIN workflows
         /\ \E i \in DOMAIN instances : instances[i].workflow_id = last'.id)
        => /\ last'.status = 204
           /\ workflows' = Without(workflows, last'.id)
           /\ instances' = instances
      ]_vars

----------------------------------------------------------------------------
(* Claims about listing and counting instances, checked under SpecListing. *)

RECURSIVE SumOver(_, _)
SumOver(f, S) ==
    IF S = {} THEN 0
    ELSE LET x == CHOOSE y \in S : TRUE IN f[x] + SumOver(f, S \ {x})

\* The instances the first supplied filter of a listing request selects.
Decided(req) ==
    IF ~req.project_id.null
    THEN {i \in DOMAIN instances : instances[i].project_id = req.project_id.v}
    ELSE IF ~req.workflow_id.null
    THEN {i \in DOMAIN instances : instances[i].workflow_id = req.workflow_id.v}
    ELSE IF ~req.stage.null
    THEN {i \in DOMAIN instances : instances[i].current_stage = req.stage.v}
    ELSE DOMAIN instances

\* C24: a listing of instances succeeds, and among project_id, workflow_id and
\* stage the first filter that is supplied (not null; a project_id or
\* workflow_id of 0 is supplied) decides the result: the total is the number of
\* instances equal on that field and the items are instances equal on that
\* field, whatever the other filters; with no filter supplied the result is
\* every instance, cut once by skip and limit.
C24_FirstSuppliedFilterDecides ==
    last.op = "list_instances" =>
        /\ last.status = 200
        /\ last.body.total = Cardinality(Decided(last.req))
        /\ Range(last.body.items) \subseteq Decided(last.req)
        /\ Len(last.body.items) =
              Min(last.req.limit,
                  IF last.body.total > last.req.skip
                  THEN last.body.total - last.req.skip ELSE 0)

\* C27: the instance statistics count by the WorkflowStage enumeration only:
\* one entry for each of its ten values, each the number of instances in that
\* stage (zero when none), none for any other stage name, so the entries sum
\* to the number of instances whose stage is in the enumeration, at most
\* total_instances, which counts every instance; completed_instances is the
\* number of instances with is_completed true.
C27_StatisticsByEnumeration ==
    last.op = "instance_statistics" =>
        LET by_stage == last.body.instances_by_stage
            InEnum == {i \in DOMAIN instances :
                         instances[i].current_stage \in WorkflowStage}
        IN  /\ DOMAIN by_stage = WorkflowStage
            /\ Cardinality(DOMAIN by_stage) = 10
            /\ \A stage \in WorkflowStage :
                  by_stage[stage] =
                    Cardinality({i \in DOMAIN instances :
                                    instances[i].current_stage = stage})
            /\ last.body.total_instances = Cardinality(DOMAIN instances)
            /\ Cardinality(InEnum) <= last.body.total_instances
            /\ SumOver(by_stage, DOMAIN by_stage) = Cardinality(InEnum)
            /\ last.body.completed_instances =
                  Cardinality({i \in DOMAIN instances : instances[i].is_completed})

\* Statistics taken of one completed instance in the stage custom and one
\* instance in lead that is not completed.
C27_Witness ==
    /\ last.op = "instance_statistics"
    /\ last.body.total_instances = 2
    /\ last.body.completed_instances = 1
    /\ last.body.instances_by_stage["lead"] = 1
    /\ last.body.instances_by_stage["closed_won"] = 0
    /\ \E i \in DOMAIN instances :
          instances[i].current_stage = "custom" /\ instances[i].is_completed

----------------------------------------------------------------------------
(* Claims about histories built by transitions, checked under SpecChain.   *)

\* C28: the history of an instance that was created in the stage lead with an
\* empty history and then changed by transitions alone is a chain in every
\* reachable state: the first entry's from_stage is lead, each further entry's
\* from_stage is the to_stage of the entry before it, and the last entry's
\* to_stage is the instance's current_stage.
C28_HistoryChains ==
    \A i \in DOMAIN instances :
        LET h == instances[i].history.v
        IN  Len(h) > 0 =>
              /\ h[1].from_stage = "lead"
              /\ \A n \in 1..(Len(h) - 1) : h[n + 1].from_stage = h[n].to_stage
              /\ h[Len(h)].to_stage = instances[i].current_stage

\* C29: the triggered_by of a history entry a transition request records is
\* the id of the caller, and the triggered_by and notes of the request body
\* have no influence: the instance after the request is what transition_stage
\* makes of the instance before it, the to_stage, the transition_data and the
\* caller's id, and nothing else in the store changes.
C29_TriggeredByIsCaller ==
    [][(last'.op = "transition" /\ last'.id \in DOMAIN instances) =>
        LET before == instances[last'.id]
            after == instances'[last'.id]
            t == transition_stage(before, last'.req.to_stage,
                                  last'.req.transition_data, last'.user)
        IN  /\ Len(after.history.v) > Len(before.history.v) =>
                  after.history.v[Len(after.history.v)].triggered_by = last'.user
            /\ \A n \in 1..Len(after.history.v) :
                  after.history.v[n].triggered_by \in
                     {before.history.v[m].triggered_by :
                         m \in 1..Len(before.history.v)} \cup {last'.user}
            /\ after = flush(before, t.obj, t.committed)
            /\ \A i \in DOMAIN instances \ {last'.id} : instances'[i] = instances[i]
            /\ UNCHANGED <<workflows, rules, projects>>]_vars

\* Caller 1 sent a transition whose body names user 2 and carries notes; the
\* entry it recorded names user 1.
C29_Witness ==
    /\ Transitioned
    /\ last.user = 1
    /\ last.req.triggered_by = Some(2)
    /\ ~last.req.notes.null
    /\ ListTruthy(instances[last.id].history)
    /\ LET h == instances[last.id].history.v
       IN  h[Len(h)].triggered_by = 1 /\ h[Len(h)].timestamp = now - 1

====
